---- MODULE Spec2Model ----
(***************************************************************************)
(* A model of the restaurant finder: the paginated place search with its   *)
(* price filter (pages/utils.py, get_nearby_restaurants), the review       *)
(* summarizer (pages/utils.py, process_reviews) and the page's submit      *)
(* handler (pages/1_Nearby_Restaurants.py, main).                          *)
(*                                                                         *)
(* Python's None, and a dictionary key that is missing, are the empty      *)
(* sequence <<>>; a value v that is present is the one-element sequence    *)
(* <<v>>.  The places directory, the place-detail lookup and the           *)
(* summarization service are the environment: what they answer is chosen   *)
(* when the program asks.                                                  *)
(***************************************************************************)
EXTENDS Integers, Sequences, FiniteSets, TLC

VARIABLES
    pc,                     \* position in get_nearby_restaurants
    budget,                 \* argument budget
    exclude_no_price_info,  \* argument exclude_no_price_info
    places_result,          \* the most recent nearby-search response
    idx,                    \* position of the for loop in places_result['results']
    restaurants,            \* the listings collected so far
    processed_count,        \* processed_count
    status_text,            \* the st.empty() placeholder: <<>> or <<kind>>
    progress_bar,           \* the st.progress bar: <<>> or <<percent>>
    outcome,                \* "none", "returned" or "raised"
    returned,               \* the list handed to the caller: <<>> or <<list>>
    log,                    \* the upstream requests and sleeps, in order
    examined,               \* the place-detail answers received, in order
    served,                 \* number of place ids the directory has served
    catalogue,              \* None, or Some(the price levels of the places the
                            \* directory holds, in the order it serves them)
    pr,                     \* a direct call of process_reviews and its result
    page                    \* the script run: whether utils is imported, the
                            \* page's inputs, its position, what it showed

vars == <<pc, budget, exclude_no_price_info, places_result, idx, restaurants,
          processed_count, status_text, progress_bar, outcome, returned, log,
          examined, served, catalogue, pr, page>>

searchVars == <<pc, budget, exclude_no_price_info, places_result, idx,
                restaurants, processed_count, status_text, progress_bar,
                outcome, returned, log, examined, served, catalogue>>

None == <<>>
Some(v) == <<v>>

Min(a, b) == IF a < b THEN a ELSE b

(***************************************************************************)
(* Bounds of the environment.                                              *)
(***************************************************************************)
MaxPageSize == 2      \* place ids in one nearby-search response
MaxCandidates == 3    \* place ids the directory serves in one search
MaxPages == 3         \* nearby-search responses in one search
MaxFallbacks == 1     \* listings of one search whose summary is a fallback string
MaxReviews == 6       \* reviews in a list handed to process_reviews directly
MaxRows == 2          \* rows in a response of the summarization service

PriceLevels == {None} \cup {Some(n) : n \in 0..4}
Budgets == {50, 100}

\* The directory of the end-to-end scenario: five places on one page.
ScenarioLevels == <<Some(1), Some(3), Some(2), None, Some(0)>>
Catalogues == {None, Some(ScenarioLevels)}
ReviewTexts == {None, Some("good"), Some("bad")}
SummaryTexts == {"s1", "s2"}

(***************************************************************************)
(* process_reviews                                                         *)
(***************************************************************************)
NoReviews == "No reviews available."
Unavailable == "Review processing unavailable."

RECURSIVE join(_, _)
\* sep.join(texts)
join(sep, texts) ==
    IF texts = <<>> THEN ""
    ELSE IF Len(texts) = 1 THEN texts[1]
    ELSE texts[1] \o sep \o join(sep, Tail(texts))

\* review.get('text', '')
review_text(review) == IF review = None THEN "" ELSE review[1]

\* [review.get('text', '') for review in reviews[:5]]
review_texts_all(reviews) ==
    [i \in 1..Len(reviews) |-> review_text(reviews[i])]

review_texts(reviews) ==
    [i \in 1..Min(5, Len(reviews)) |-> review_text(reviews[i])]

reviews_combined(reviews) == join("\n\n", review_texts(reviews))

\* What the summarization service may answer to one add_table_rows call:
\* an exception, no completion, or a completion with some rows.
RowSeqs(n) == UNION {[1..k -> SummaryTexts] : k \in 0..n}
JamaiResponses(n) ==
    {[kind |-> "raise", rows |-> <<>>], [kind |-> "null", rows |-> <<>>]}
    \cup {[kind |-> "rows", rows |-> r] : r \in RowSeqs(n)}

\* process_reviews(reviews) when the service answers resp.  reviews is None or
\* Some(list).  The result: whether the call raised, the value returned, the
\* texts submitted to the service, and the warnings shown.
process_reviews_uncaught(reviews, resp) ==
    IF reviews = None \/ reviews[1] = <<>>
    THEN [raised |-> FALSE, value |-> NoReviews, submitted |-> <<>>, warnings |-> 0]
    ELSE LET text == reviews_combined(reviews[1]) IN
         IF resp.kind = "raise"
         THEN [raised |-> TRUE, value |-> "", submitted |-> <<text>>, warnings |-> 0]
         ELSE IF resp.kind = "rows" /\ Len(resp.rows) > 0
         THEN [raised |-> FALSE, value |-> resp.rows[1], submitted |-> <<text>>,
               warnings |-> 0]
         ELSE [raised |-> FALSE, value |-> Unavailable, submitted |-> <<text>>,
               warnings |-> 1]

process_reviews(reviews, resp) ==
    IF reviews = None \/ reviews[1] = <<>>
    THEN [raised |-> FALSE, value |-> NoReviews, submitted |-> <<>>, warnings |-> 0]
    ELSE LET text == reviews_combined(reviews[1]) IN
         IF resp.kind = "raise"
         THEN [raised |-> FALSE, value |-> Unavailable, submitted |-> <<text>>,
               warnings |-> 1]
         ELSE IF resp.kind = "rows" /\ Len(resp.rows) > 0
         THEN [raised |-> FALSE, value |-> resp.rows[1], submitted |-> <<text>>,
               warnings |-> 0]
         ELSE [raised |-> FALSE, value |-> Unavailable, submitted |-> <<text>>,
               warnings |-> 1]

(***************************************************************************)
(* get_nearby_restaurants                                                  *)
(***************************************************************************)
\* The price filter of the for loop (lines 188-195): TRUE when the place is
\* skipped.
skip_place_ignoring_exclude(price_level, b, excl) ==
    price_level # None /\ price_level[1] * 25 > b

skip_place(price_level, b, excl) ==
    \/ price_level # None /\ price_level[1] * 25 > b
    \/ excl /\ price_level = None

\* len(restaurants) >= 3 (lines 173, 224, 228)
enough_after_four(listings) == Len(listings) > 3

enough(listings) == Len(listings) >= 3

\* restaurants.append(restaurant)
append_listing_first(listings, restaurant) == <<restaurant>> \o listings

append_listing(listings, restaurant) == Append(listings, restaurant)

Event(op, arg) == [op |-> op, arg |-> arg]

\* The log records, in order: each request sent upstream ("places_nearby" with
\* its page token, "place" with its place id, "add_table_rows" with the text
\* submitted), each sleep with its length in milliseconds, and what went wrong:
\* "exception" when a places request raised, "no_summary" when the
\* summarization service raised or answered without rows.
Requests(l, op) == SelectSeq(l, LAMBDA e : e.op = op)

\* A nearby-search response: n fresh place ids, and a next-page token or none.
\* The token of the k-th response is k.
NearbyResponse(n, has_token) ==
    [results |-> [i \in 1..n |-> served + i],
     next_page_token |-> IF has_token
                         THEN Some(Len(Requests(log, "places_nearby")) + 1)
                         ELSE None]

NoResponse == [results |-> <<>>, next_page_token |-> None]

\* Lines 255-259: except Exception: status_text.empty(); progress_bar.empty();
\* raise
except_handler_keeps_widgets(newlog) ==
    /\ outcome' = "raised"
    /\ pc' = "done"
    /\ log' = newlog
    /\ UNCHANGED <<status_text, progress_bar, returned>>

except_handler(newlog) ==
    /\ status_text' = <<>>
    /\ progress_bar' = <<>>
    /\ outcome' = "raised"
    /\ pc' = "done"
    /\ log' = newlog
    /\ UNCHANGED returned

Init ==
    /\ pc = "idle"
    /\ budget = 0
    /\ exclude_no_price_info = TRUE
    /\ places_result = NoResponse
    /\ idx = 0
    /\ restaurants = <<>>
    /\ processed_count = 0
    /\ status_text = <<>>
    /\ progress_bar = <<>>
    /\ outcome = "none"
    /\ returned = None
    /\ log = <<>>
    /\ examined = <<>>
    /\ served = 0
    /\ catalogue = None
    /\ pr = [state |-> "idle"]
    /\ page = [pc |-> "idle"]

\* Lines 147-161: the progress widgets, the client, the keyword.  The
\* constructor of the client may raise, inside the try block.
Start ==
    /\ pc = "idle" /\ pr.state = "idle" /\ page.pc = "loaded"
    /\ \E b \in Budgets, excl \in BOOLEAN, cat \in Catalogues :
          /\ budget' = b
          /\ exclude_no_price_info' = excl
          /\ catalogue' = cat
    /\ \/ /\ status_text' = <<"info">>
          /\ progress_bar' = <<30>>
          /\ pc' = "search"
          /\ UNCHANGED <<outcome, log, returned>>
       \/ except_handler(Append(log, Event("exception", None)))
    /\ UNCHANGED <<places_result, idx, restaurants, processed_count,
                   examined, served, pr, page>>

\* The sizes the next page may have, and the price levels the details of a
\* place may carry.
PageSizes ==
    IF catalogue = None THEN 0..Min(MaxPageSize, MaxCandidates - served)
    ELSE 0..(Len(catalogue[1]) - served)

DetailLevels(place_id) ==
    IF catalogue = None THEN PriceLevels ELSE {catalogue[1][place_id]}

Fallbacks(listings) ==
    Cardinality({i \in 1..Len(listings) :
                    listings[i].review_summary \in {NoReviews, Unavailable}})

\* Reviews a place-detail answer may carry, and what the service may answer,
\* during a search.
DetailReviews ==
    {<<Some("good")>>}
    \cup (IF Fallbacks(restaurants) < MaxFallbacks THEN {<<>>} ELSE {})

SearchResponses ==
    {[kind |-> "rows", rows |-> <<"s1">>]}
    \cup (IF Fallbacks(restaurants) < MaxFallbacks
          THEN {[kind |-> "raise", rows |-> <<>>], [kind |-> "rows", rows |-> <<>>]}
          ELSE {})

\* The answer to a places_nearby request issued with log newlog.
nearby_answer(newlog) ==
    \/ /\ except_handler(Append(newlog, Event("exception", None)))
       /\ UNCHANGED <<places_result, served>>
    \/ \E n \in PageSizes, has_token \in BOOLEAN :
          /\ places_result' = NearbyResponse(n, has_token)
          /\ served' = served + n
          /\ log' = newlog
          /\ pc' = "while"
          /\ UNCHANGED <<status_text, progress_bar, outcome, returned>>

\* Lines 163-171: the first nearby search.
FirstSearch ==
    /\ pc = "search"
    /\ nearby_answer(Append(log, Event("places_nearby", None)))
    /\ UNCHANGED <<budget, exclude_no_price_info, idx, restaurants,
                   processed_count, examined, catalogue, pr, page>>

\* Lines 173-175: the while condition and the progress update.
WhileHead ==
    /\ pc = "while"
    /\ IF places_result.results # <<>> /\ ~enough(restaurants)
       THEN /\ pc' = "for"
            /\ idx' = 1
            /\ status_text' = <<"info">>
            /\ progress_bar' = <<Min(50 + processed_count * 10, 90)>>
       ELSE /\ pc' = "final"
            /\ UNCHANGED <<idx, status_text, progress_bar>>
    /\ UNCHANGED <<budget, exclude_no_price_info, places_result, restaurants,
                   processed_count, outcome, returned, log, examined, served,
                   catalogue, pr, page>>

\* The for loop moves to the next place, or ends.
next_place ==
    IF idx < Len(places_result.results)
    THEN idx' = idx + 1 /\ pc' = "for"
    ELSE idx' = idx /\ pc' = "after_for"

\* The log after process_reviews ran with result r on the service's answer resp.
summary_log(l, r, resp) ==
    IF r.submitted = <<>> THEN l
    ELSE LET sent == Append(l, Event("add_table_rows", r.submitted)) IN
         IF resp.kind = "rows" /\ Len(resp.rows) > 0 THEN sent
         ELSE Append(sent, Event("no_summary", None))

\* Lines 177-225: one iteration of the for loop.
ProcessPlace ==
    /\ pc = "for"
    /\ LET place_id == places_result.results[idx]
           log1 == Append(log, Event("place", Some(place_id)))
       IN
       \/ /\ except_handler(Append(log1, Event("exception", None)))
          /\ UNCHANGED <<idx, restaurants, processed_count, examined>>
       \/ \E price_level \in DetailLevels(place_id) :
            /\ examined' = Append(examined, [place_id |-> place_id,
                                             price_level |-> price_level])
            /\ IF skip_place(price_level, budget, exclude_no_price_info)
               THEN /\ next_place
                    /\ log' = log1
                    /\ UNCHANGED <<restaurants, processed_count, status_text,
                                   progress_bar, outcome, returned>>
               ELSE \E reviews \in DetailReviews, resp \in SearchResponses :
                    LET r == process_reviews(Some(reviews), resp)
                        log2 == summary_log(log1, r, resp)
                    IN
                    IF r.raised
                    THEN /\ except_handler(log2)
                         /\ UNCHANGED <<idx, restaurants, processed_count>>
                    ELSE /\ restaurants' =
                              append_listing(restaurants,
                                             [name |-> place_id,
                                              price_level |-> price_level,
                                              review_summary |-> r.value])
                         /\ processed_count' = processed_count + 1
                         /\ log' = log2
                         /\ IF enough(restaurants')
                            THEN idx' = idx /\ pc' = "after_for"
                            ELSE next_place
                         /\ UNCHANGED <<status_text, progress_bar, outcome,
                                        returned>>
    /\ UNCHANGED <<budget, exclude_no_price_info, places_result, served,
                   catalogue, pr, page>>

\* Lines 233-240: time.sleep(2), then places_nearby with the page token.
next_page_request_without_sleep(l, token) ==
    Append(l, Event("places_nearby", token))

next_page_request(l, token) ==
    Append(Append(l, Event("sleep", Some(2000))), Event("places_nearby", token))

\* Lines 227-242: enough listings, or the next page, or no more pages.
AfterFor ==
    /\ pc = "after_for"
    /\ IF enough(restaurants) \/ places_result.next_page_token = None
       THEN /\ pc' = "final"
            /\ UNCHANGED <<places_result, served, status_text, progress_bar,
                           outcome, returned, log>>
       ELSE /\ Len(Requests(log, "places_nearby")) < MaxPages
            /\ nearby_answer(next_page_request(log, places_result.next_page_token))
    /\ UNCHANGED <<budget, exclude_no_price_info, idx, restaurants,
                   processed_count, examined, catalogue, pr, page>>

\* Lines 244-253: the final progress, the cleared widgets, the return.
Finish ==
    /\ pc = "final"
    /\ log' = Append(log, Event("sleep", Some(500)))
    /\ status_text' = <<>>
    /\ progress_bar' = <<>>
    /\ returned' = Some(restaurants)
    /\ outcome' = "returned"
    /\ pc' = "done"
    /\ UNCHANGED <<budget, exclude_no_price_info, places_result, idx,
                   restaurants, processed_count, examined, served, catalogue,
                   pr, page>>

(***************************************************************************)
(* A direct call of process_reviews.                                       *)
(***************************************************************************)
SeqsUpTo(S, n) == UNION {[1..k -> S] : k \in 0..n}

ReviewLists == {None} \cup {Some(l) : l \in SeqsUpTo(ReviewTexts, MaxReviews)}

CallProcessReviews ==
    /\ pc = "idle" /\ pr.state = "idle" /\ page.pc = "loaded"
    /\ \E reviews \in ReviewLists, resp \in JamaiResponses(MaxRows) :
          pr' = [state |-> "done", reviews |-> reviews, resp |-> resp,
                 result |-> process_reviews(reviews, resp)]
    /\ UNCHANGED <<searchVars, page>>

(***************************************************************************)
(* The import of pages/utils.py, which every use of its functions and the  *)
(* page itself begin with (utils.py line 41, page line 3), and the page:   *)
(* main of pages/1_Nearby_Restaurants.py, when the button is pressed.      *)
(* The page imports initialize_jamai from pages/utils.py, where  *)
(* it takes no parameter, and calls it with two arguments: the call raises *)
(* TypeError before anything else of the try block runs, so lines 77-131   *)
(* of main (the tables, the geolocation, the search, the result cards) are *)
(* never reached and have no action here.                                  *)
(***************************************************************************)
Keys == {"", "K"}

\* os.getenv of a variable: not set, set to the empty string, or set.
EnvValues == {None, Some(""), Some("K")}

\* Lines 15-41: jamai = initialize_jamai(), run when utils is imported.  Without
\* JAMAI_PROJECT_ID or JAMAI_API_KEY in the environment it shows the
\* credentials error and st.stop() halts the script: main is never run.
ImportUtils ==
    /\ pc = "idle" /\ pr.state = "idle" /\ page.pc = "idle"
    /\ \E project_id \in EnvValues, token \in EnvValues :
          LET missing == project_id \in {None, Some("")} \/ token \in {None, Some("")} IN
          page' = [pc |-> IF missing THEN "stopped" ELSE "loaded",
                   env_project_id |-> project_id,
                   env_token |-> token,
                   errors |-> IF missing THEN <<"env_credentials">> ELSE <<>>]
    /\ UNCHANGED <<searchVars, pr>>
Radii == {500, 2000, 10000}

\* Number of parameters of utils.initialize_jamai, and of arguments main gives.
initialize_jamai_params == 0
initialize_jamai_args == 2

\* Lines 63-70: the button and the validation of the credentials.
validate_google_only(google_api_key, jamai_project_id, jamai_api_key) ==
    IF google_api_key = "" THEN Some("google_key") ELSE None

validate(google_api_key, jamai_project_id, jamai_api_key) ==
    IF google_api_key = "" THEN Some("google_key")
    ELSE IF jamai_project_id = "" \/ jamai_api_key = "" THEN Some("jamai_credentials")
    ELSE None

Submit ==
    /\ pc = "idle" /\ pr.state = "idle" /\ page.pc = "loaded"
    /\ \E google_api_key \in Keys, jamai_project_id \in Keys, jamai_api_key \in Keys,
          b \in Budgets, radius \in Radii, excl \in BOOLEAN :
          LET e == validate(google_api_key, jamai_project_id, jamai_api_key) IN
          page' = [pc |-> IF e = None THEN "try" ELSE "done",
                   google_api_key |-> google_api_key,
                   jamai_project_id |-> jamai_project_id,
                   jamai_api_key |-> jamai_api_key,
                   budget |-> b, radius |-> radius, exclude_no_price |-> excl,
                   errors |-> page.errors \o e, calls |-> <<>>, cards |-> 0]
    /\ UNCHANGED <<searchVars, pr>>

\* Line 74: jamai = initialize_jamai(jamai_project_id, jamai_api_key)
CallInitializeJamai ==
    /\ page.pc = "try"
    /\ page' = [page EXCEPT
                  !.calls = Append(@, "initialize_jamai"),
                  !.pc = IF initialize_jamai_args # initialize_jamai_params
                         THEN "except" ELSE "stuck"]
    /\ UNCHANGED <<searchVars, pr>>

\* Lines 133-134: except Exception as e: st.error(...)
MainExcept ==
    /\ page.pc = "except"
    /\ page' = [page EXCEPT !.errors = Append(@, "generic"), !.pc = "done"]
    /\ UNCHANGED <<searchVars, pr>>

Next ==
    \/ ImportUtils
    \/ Start
    \/ FirstSearch
    \/ WhileHead
    \/ ProcessPlace
    \/ AfterFor
    \/ Finish
    \/ CallProcessReviews
    \/ Submit
    \/ CallInitializeJamai
    \/ MainExcept

Spec == Init /\ [][Next]_vars

(***************************************************************************)
(* Properties                                                              *)
(***************************************************************************)
\* The price condition of a listing, as the data model states it.
Qualifies(price_level) ==
    \/ price_level # None /\ price_level[1] * 25 <= budget
    \/ price_level = None /\ ~exclude_no_price_info

AllQualify(listings) ==
    \A i \in 1..Len(listings) : Qualifies(listings[i].price_level)

Levels(listings) == [i \in 1..Len(listings) |-> listings[i].price_level]

\* C1: every listing collected, and every listing returned, has a price level
\* with price_level * 25 <= budget, or has none while exclude_no_price_info
\* is false.
C1_PriceFilter ==
    /\ AllQualify(restaurants)
    /\ returned # None => AllQualify(returned[1])

\* A search with exclude_no_price_info set returned listings after it met a
\* place without a price level and a place that costs more than the budget.
C1_Witness ==
    /\ outcome = "returned"
    /\ exclude_no_price_info
    /\ Len(returned[1]) >= 2
    /\ \E i \in 1..Len(examined) : examined[i].price_level = None
    /\ \E i \in 1..Len(examined) :
          examined[i].price_level # None /\ examined[i].price_level[1] * 25 > budget

\* C2: at every point of the search, and in the list returned, there are at
\* most 3 listings.
C2_AtMostThree ==
    /\ Len(restaurants) <= 3
    /\ returned # None => Len(returned[1]) <= 3

\* Three listings were returned while the page still held places not looked at
\* and carried a token for a further page.
C2_Witness ==
    /\ outcome = "returned"
    /\ Len(returned[1]) = 3
    /\ idx < Len(places_result.results)
    /\ places_result.next_page_token # None

\* The places examined that pass the price condition, in the order examined.
QualifyingExamined == SelectSeq(examined, LAMBDA c : Qualifies(c.price_level))

FirstThree(q) == SubSeq(q, 1, Min(3, Len(q)))

\* C3: the list returned is, place by place and in upstream order, the first
\* min(3, k) of the k examined places that pass the price condition; for the
\* one page with price levels [1, 3, 2, None, 0], budget 50 and the exclusion
\* set, it is the places with price levels [1, 2, 0].
C3_OrderPreserved ==
    outcome = "returned" =>
        /\ Len(returned[1]) = Min(3, Len(QualifyingExamined))
        /\ \A i \in 1..Len(returned[1]) :
              /\ returned[1][i].name = FirstThree(QualifyingExamined)[i].place_id
              /\ returned[1][i].price_level = FirstThree(QualifyingExamined)[i].price_level
        /\ ( /\ Levels(examined) = ScenarioLevels
             /\ Len(Requests(log, "places_nearby")) = 1
             /\ budget = 50
             /\ exclude_no_price_info )
           => /\ Levels(returned[1]) = <<Some(1), Some(2), Some(0)>>
              /\ [i \in 1..3 |-> returned[1][i].name] = <<1, 3, 5>>

\* The scenario ran: one page of five places with the scenario's price levels.
C3_Witness ==
    /\ outcome = "returned"
    /\ Levels(examined) = ScenarioLevels
    /\ Len(Requests(log, "places_nearby")) = 1
    /\ budget = 50
    /\ exclude_no_price_info
    /\ Len(returned[1]) = 3

\* C4: the search returns fewer than 3 listings only when the most recent
\* nearby-search response carries no next-page token.
C4_StopsOnlyWhenExhausted ==
    (outcome = "returned" /\ Len(returned[1]) < 3)
        => places_result.next_page_token = None

\* The reviews given to the call of process_reviews: none, or an empty list.
NoReviewsGiven == pr.reviews = None \/ pr.reviews[1] = <<>>

ServiceFailed(resp) == resp.kind # "rows" \/ resp.rows = <<>>

\* C5: process_reviews never raises; without reviews it returns "No reviews
\* available." and submits nothing; with reviews it returns "Review processing
\* unavailable." when the service raises or answers without rows, and the
\* text of the first row otherwise.
C5_ProcessReviewsTotal ==
    pr.state = "done" =>
        /\ ~pr.result.raised
        /\ NoReviewsGiven =>
              pr.result.value = "No reviews available." /\ pr.result.submitted = <<>>
        /\ (~NoReviewsGiven /\ ServiceFailed(pr.resp)) =>
              pr.result.value = "Review processing unavailable."
        /\ (~NoReviewsGiven /\ ~ServiceFailed(pr.resp)) =>
              pr.result.value = pr.resp.rows[1]

\* process_reviews was called with reviews and the service raised.
C5_Witness ==
    /\ pr.state = "done"
    /\ ~NoReviewsGiven
    /\ pr.resp.kind = "raise"
    /\ pr.result.value = "Review processing unavailable."

\* The upstream request that raised, if any, is the last entry of the log.
RaisedAt(l, i) == l[i].op = "exception"

\* C6, the half of it about get_nearby_restaurants: when a places request
\* raises, get_nearby_restaurants raises: no list is returned, the status text
\* and the progress bar are empty, and no request follows.  The other half of
\* C6, what main shows when the search it called raises, has no state to be
\* checked in: main raises at line 74, before it calls the search.
C6_SearchFailurePropagates ==
    \A i \in 1..Len(log) :
        RaisedAt(log, i) =>
            /\ i = Len(log)
            /\ outcome = "raised"
            /\ returned = None
            /\ status_text = <<>>
            /\ progress_bar = <<>>

\* A place-detail request raised on a later page, after a listing was collected.
C6_Witness ==
    /\ outcome = "raised"
    /\ Len(log) >= 2
    /\ log[Len(log) - 1].op = "place"
    /\ Len(restaurants) >= 1
    /\ Len(Requests(log, "places_nearby")) >= 2
    /\ returned = None

\* A step in which the summarization service failed for the place looked at.
C7_Step ==
    (log' # log /\ log'[Len(log')].op = "no_summary") =>
        /\ restaurants' =
              Append(restaurants,
                     [name |-> places_result.results[idx],
                      price_level |-> examined'[Len(examined')].price_level,
                      review_summary |-> "Review processing unavailable."])
        /\ outcome' = "none"
        /\ IF Len(restaurants') >= 3 \/ idx = Len(places_result.results)
           THEN pc' = "after_for"
           ELSE pc' = "for" /\ idx' = idx + 1

\* C7: when the summarization service fails for a place that passes the price
\* filter, the place is appended with the fallback summary and the loop goes on
\* to the next place, the next page or the end, as after any appended place.
C7_SummaryFailureKeepsListing == [][C7_Step]_vars

\* The service failed for the first listing and the search went on to return
\* that listing and a later one.
C7_Witness ==
    /\ outcome = "returned"
    /\ Len(returned[1]) >= 2
    /\ returned[1][1].review_summary = "Review processing unavailable."
    /\ \E i \in 1..Len(log) : log[i].op = "no_summary"

\* The page ran main with the button pressed.
Submitted == page.pc \in {"try", "except", "done"}

\* C8: a submit with an empty Google Maps key, or an empty JamAI project id or
\* API key, ends with the matching credential error alone: the try block is
\* not entered, nothing is requested upstream, no card is rendered.  The
\* same holds of the import that finds no JamAI credentials in the
\* environment: its error alone is shown and the script stops there.
C8_MissingCredentialsHalt ==
    /\ (Submitted /\ ( \/ page.google_api_key = ""
                       \/ page.jamai_project_id = ""
                       \/ page.jamai_api_key = "" )) =>
          /\ page.pc = "done"
          /\ page.errors = IF page.google_api_key = "" THEN <<"google_key">>
                           ELSE <<"jamai_credentials">>
          /\ page.calls = <<>>
          /\ page.cards = 0
          /\ log = <<>>
          /\ pc = "idle"
    /\ page.pc = "stopped" =>
          /\ page.errors = <<"env_credentials">>
          /\ log = <<>>
          /\ pc = "idle"
          /\ pr.state = "idle"

\* The Google Maps key was given and the JamAI API key was not.
C8_Witness ==
    /\ page.pc = "done"
    /\ page.google_api_key = "K"
    /\ page.jamai_project_id = "K"
    /\ page.jamai_api_key = ""
    /\ page.errors = <<"jamai_credentials">>

\* The texts of the first min(5, n) reviews joined by blank lines, built from
\* the left.
ExpectedSubmission(reviews) ==
    LET n == Min(5, Len(reviews))
        T(i) == IF reviews[i] = None THEN "" ELSE reviews[i][1]
        F[i \in 1..n] == IF i = 1 THEN T(1) ELSE F[i - 1] \o "\n\n" \o T(i)
    IN  F[n]

\* C9: for a list of n >= 1 reviews process_reviews submits once, and the text
\* submitted is the texts of the first min(5, n) reviews in order, joined by
\* blank lines, a review without text giving the empty string.
C9_SubmitsFirstFive ==
    (pr.state = "done" /\ ~NoReviewsGiven) =>
        /\ Len(pr.result.submitted) = 1
        /\ pr.result.submitted[1] = ExpectedSubmission(pr.reviews[1])

\* Six reviews were given, one of the first five without text.
C9_Witness ==
    /\ pr.state = "done"
    /\ pr.reviews # None
    /\ Len(pr.reviews[1]) = 6
    /\ \E i \in 1..5 : pr.reviews[1][i] = None
    /\ pr.reviews[1][6] = Some("bad")
    /\ pr.reviews[1][1] = Some("good")

\* The nearby-search requests of a log follow the pagination protocol.
PaginationOrdered(l) ==
    /\ \A i \in 1..Len(l) :
          l[i].op = "places_nearby" =>
              LET earlier == Len(Requests(SubSeq(l, 1, i - 1), "places_nearby")) IN
              IF earlier = 0 THEN l[i].arg = None
              ELSE /\ l[i].arg = Some(earlier)
                   /\ l[i - 1] = Event("sleep", Some(2000))
    /\ \A i \in 1..Len(l) :
          l[i] = Event("sleep", Some(2000)) =>
              i < Len(l) /\ l[i + 1].op = "places_nearby"

\* What a step adds to the log.
NewEvents == SubSeq(log', Len(log) + 1, Len(log'))

\* The log stays ordered, and with 3 listings only the final sleep is added.
C10_Step ==
    /\ PaginationOrdered(log')
    /\ Len(restaurants) >= 3 =>
          \A i \in 1..Len(NewEvents) : NewEvents[i].op = "sleep" /\ NewEvents[i].arg = Some(500)

\* C10: the first nearby search carries no page token; every later one carries
\* the token of the response before it and comes directly after the pagination
\* delay; once 3 listings are collected nothing more is requested upstream.
C10_PaginationProtocol == [][C10_Step]_vars

\* Three nearby searches were made and three listings returned.
C10_Witness ==
    /\ outcome = "returned"
    /\ Len(Requests(log, "places_nearby")) = 3
    /\ Len(returned[1]) = 3

====
